---- MODULE Spec2Model ----
(***************************************************************************)
(* Model of the gonebot event decoder.                                     *)
(*                                                                         *)
(*   src/event.go          convertJsonObjectToEvent, the event structs,    *)
(*                         GetSessionId and GetEventDescription            *)
(*   src/unnamed/part_000  FromJsonObject, the earlier decoder (package    *)
(*                         event), which sets EventName and has no ToMe;   *)
(*                         its structs are taken to be those of event.go   *)
(*                                                                         *)
(* Representation of text.  Text that the decoder joins and compares       *)
(* (post_type, <post_type>_type, sub_type, typeName, EventName) is the     *)
(* sequence of its dot-separated segments: "notice.notify" is              *)
(* <<"notice", "notify">>, "" is <<"">>, and fmt.Sprintf("%s.%s", a, b) is  *)
(* a \o b.  Text that is formatted and sliced (session ids, descriptions) *)
(* is the sequence of its runes (code points).                            *)
(***************************************************************************)
EXTENDS Integers, Sequences, FiniteSets, TLC

VARIABLES
    payload,      \* the gjson object handed to the last decode call (its members, in text order)
    api,          \* which decoder the last call used: "convert" or "from"
    ret,          \* what the last decode call gave back: an event, or a panic
    ref,          \* an earlier call kept for comparison (payload, api, ret)
    stream,       \* payloads the transport loop has received so far
    delivered,    \* events the transport loop handed to the application
    diagnostics,  \* payloads the transport loop dropped, with the reason
    alive,        \* the owning process is still running
    msgA, msgB,   \* two decoded message events
    keyA, keyB,   \* their session ids
    desc          \* GetEventDescription() of msgA

vars == <<payload, api, ret, ref, stream, delivered, diagnostics, alive,
          msgA, msgB, keyA, keyB, desc>>

None == [none |-> TRUE]

-----------------------------------------------------------------------------
(* JSON values and the two readers of a payload                            *)

Str(s) == [t |-> "string", s |-> s]
Num(n) == [t |-> "number", n |-> n]
Null == [t |-> "null"]
\* A message value; at is the set of accounts its segments mention or reply to.
Msg(at) == [t |-> "message", at |-> at]
Member(k, v) == [k |-> k, v |-> v]

Empty == <<"">>

\* gjson's Result.String(): the text of a string, the literal of a number,
\* "" for null and for a value that does not exist.
gjsonString(v) ==
    IF v = None THEN Empty
    ELSE IF v.t = "string" THEN v.s
    ELSE IF v.t = "number" THEN <<ToString(v.n)>>
    ELSE Empty

RECURSIVE firstMember(_, _)
firstMember(obj, key) ==
    IF obj = <<>> THEN None
    ELSE IF Head(obj).k = key THEN Head(obj).v
    ELSE firstMember(Tail(obj), key)

\* gjson's obj.Get(path): a path of several segments descends into nested
\* objects, which no top-level member of these payloads is; a single segment
\* is the first member with exactly that key.
gjsonGet(obj, path) ==
    IF Len(path) # 1 THEN None ELSE firstMember(obj, path[1])

\* postType + "_type" as a path
typeKey(postType) ==
    [i \in 1..Len(postType) |->
        IF i = Len(postType) THEN postType[i] \o "_type" ELSE postType[i]]

-----------------------------------------------------------------------------
(* The resolver                                                            *)

getPostType(obj) == gjsonString(gjsonGet(obj, <<"post_type">>))
getNextType(obj) == gjsonString(gjsonGet(obj, typeKey(getPostType(obj))))
getTypeName(obj) == getPostType(obj) \o getNextType(obj)

subTypeExists(obj) == gjsonGet(obj, <<"sub_type">>) # None

getSubType(obj) ==
    IF subTypeExists(obj) THEN gjsonString(gjsonGet(obj, <<"sub_type">>)) ELSE Empty

getFullTypeName(obj) ==
    IF subTypeExists(obj) THEN getTypeName(obj) \o getSubType(obj)
    ELSE getTypeName(obj)

\* var ev I_Event left nil by the inner switch
NilEvent == "nil"
\* the default branch of the outer switch
NoCase == "default"

SwitchTable ==
    (<<"message", "private">> :> "PrivateMessageEvent")
    @@ (<<"message", "group">> :> "GroupMessageEvent")
    @@ (<<"notice", "group_upload">> :> "GroupUploadNoticeEvent")
    @@ (<<"notice", "group_admin">> :> "GroupAdminNoticeEvent")
    @@ (<<"notice", "group_decrease">> :> "GroupDecreaseNoticeEvent")
    @@ (<<"notice", "group_increase">> :> "GroupIncreaseNoticeEvent")
    @@ (<<"notice", "group_ban">> :> "GroupBanNoticeEvent")
    @@ (<<"notice", "friend_add">> :> "FriendAddNoticeEvent")
    @@ (<<"notice", "group_recall">> :> "GroupRecallNoticeEvent")
    @@ (<<"notice", "friend_recall">> :> "FriendRecallNoticeEvent")
    @@ (<<"request", "friend">> :> "FriendRequestEvent")
    @@ (<<"request", "group">> :> "GroupRequestEvent")
    @@ (<<"meta_event", "lifecycle">> :> "LifeCycleMetaEvent")
    @@ (<<"meta_event", "heartbeat">> :> "HeartbeatMetaEvent")

notifyFallback(subType) ==
    IF subType = <<"poke">> THEN "PokeNoticeEvent"
    ELSE IF subType = <<"lucky_king">> THEN "LuckyKingNoticeEvent"
    ELSE "HonorNoticeEvent"

\* the inner switch of case "notice.notify"
notifyVariant(subType) ==
    IF subType = <<"poke">> THEN "PokeNoticeEvent"
    ELSE IF subType = <<"lucky_king">> THEN "LuckyKingNoticeEvent"
    ELSE IF subType = <<"honor">> THEN "HonorNoticeEvent"
    ELSE NilEvent

switchBySubType(typeName, subType) ==
    IF typeName = <<"notice", "notify">> THEN notifyVariant(subType)
    ELSE IF typeName = <<"notice", "group_increase">> /\ subType = <<"poke">>
        THEN "PokeNoticeEvent"
    ELSE IF typeName \in DOMAIN SwitchTable THEN SwitchTable[typeName]
    ELSE NoCase

\* switch typeName { ... }
switchVariant(typeName, subType) ==
    IF typeName = <<"notice", "notify">> THEN notifyVariant(subType)
    ELSE IF typeName \in DOMAIN SwitchTable THEN SwitchTable[typeName]
    ELSE NoCase

-----------------------------------------------------------------------------
(* The event structs and encoding/json                                     *)

\* json tags of the struct fields, by struct (embedded structs included).
\* Of the fields no decision of the decoder reads, time, message_id,
\* raw_message, font, operator_id, duration, comment, flag and the nested
\* sender, file and status objects are left out; they decode like the others.
EventTags == {"self_id", "post_type"}
MessageEventTags == EventTags \cup {"message_type", "sub_type", "user_id", "message"}
NoticeEventTags == EventTags \cup {"notice_type"}

tagsOf(variant) ==
    CASE variant = "PrivateMessageEvent" -> MessageEventTags
      [] variant = "GroupMessageEvent" -> MessageEventTags \cup {"group_id"}
      [] variant = "LifeCycleMetaEvent" -> EventTags \cup {"meta_event_type", "sub_type"}
      [] variant = "HeartbeatMetaEvent" -> EventTags \cup {"meta_event_type"}
      [] variant = "GroupUploadNoticeEvent" -> NoticeEventTags \cup {"group_id", "user_id"}
      [] variant \in {"GroupAdminNoticeEvent", "GroupIncreaseNoticeEvent",
                      "GroupDecreaseNoticeEvent", "GroupBanNoticeEvent",
                      "HonorNoticeEvent"} ->
            NoticeEventTags \cup {"sub_type", "group_id", "user_id"}
      [] variant = "FriendAddNoticeEvent" -> NoticeEventTags \cup {"user_id"}
      [] variant = "GroupRecallNoticeEvent" -> NoticeEventTags \cup {"group_id", "user_id"}
      [] variant = "FriendRecallNoticeEvent" -> NoticeEventTags \cup {"user_id"}
      [] variant \in {"PokeNoticeEvent", "LuckyKingNoticeEvent"} ->
            NoticeEventTags \cup {"sub_type", "group_id", "user_id", "target_id"}
      [] variant = "FriendRequestEvent" -> EventTags \cup {"request_type", "user_id"}
      [] variant = "GroupRequestEvent" ->
            EventTags \cup {"request_type", "sub_type", "group_id", "user_id"}

\* the Go field a json tag belongs to
goField(tag) ==
    CASE tag = "self_id" -> "SelfId"
      [] tag = "post_type" -> "PostType"
      [] tag = "message_type" -> "MessageType"
      [] tag = "notice_type" -> "NoticeType"
      [] tag = "request_type" -> "RequestType"
      [] tag = "meta_event_type" -> "MetaEventType"
      [] tag = "sub_type" -> "SubType"
      [] tag = "group_id" -> "GroupId"
      [] tag = "user_id" -> "UserId"
      [] tag = "target_id" -> "TargetId"
      [] tag = "message" -> "Message"

\* the Go type of the field
kindOf(tag) ==
    IF tag \in {"self_id", "group_id", "user_id", "target_id"} THEN "int64"
    ELSE IF tag = "message" THEN "Message"
    ELSE "string"

\* An event value.  Every struct is given every modelled field; a field the
\* struct does not have is never assigned and keeps its zero value.
\* EventName and ToMe carry the tag json:"-".
zeroValue(variant) ==
    [variant |-> variant, SelfId |-> 0, PostType |-> Empty,
     MessageType |-> Empty, NoticeType |-> Empty, RequestType |-> Empty,
     MetaEventType |-> Empty, SubType |-> Empty, GroupId |-> 0, UserId |-> 0,
     TargetId |-> 0, Message |-> {}, EventName |-> Empty, ToMe |-> FALSE]

\* the event value of the previous call, handed out again
recycledEvent(variant) ==
    IF ret # None /\ ret.ok /\ ret.ev.variant = variant THEN ret.ev
    ELSE zeroValue(variant)

\* ev = &PrivateMessageEvent{} and the like: a fresh zero value
newEvent(variant) == zeroValue(variant)

\* encoding/json folds the case of a key that matches no tag exactly.  Of the
\* keys these payloads use, the ones with upper-case letters:
foldKey(key) ==
    CASE key = "POST_TYPE" -> "post_type"
      [] key = "EventName" -> "eventname"
      [] key = "ToMe" -> "tome"
      [] OTHER -> key

\* the tag of the field a member's key selects: an exact match first, then a
\* case-insensitive one
fieldFor(variant, key) ==
    IF key \in tagsOf(variant) THEN key
    ELSE IF foldKey(key) \in tagsOf(variant) THEN foldKey(key)
    ELSE "-"

\* whether a JSON value can be stored in a field of the kind; null always can
\* (it leaves the field as it is)
fits(kind, v) ==
    \/ v.t = "null"
    \/ kind = "string" /\ v.t = "string"
    \/ kind = "int64" /\ v.t = "number"
    \/ kind = "Message" /\ v.t = "message"

stored(v) ==
    IF v.t = "string" THEN v.s ELSE IF v.t = "number" THEN v.n ELSE v.at

NoError == "nil"

\* a decoder that skips a value of the wrong type without reporting it
assignLenient(acc, tag, v) ==
    IF v.t = "null" \/ ~fits(kindOf(tag), v) THEN acc
    ELSE [acc EXCEPT !.ev = [acc.ev EXCEPT ![goField(tag)] = stored(v)]]

\* one member decoded into its field: a value of the wrong type is skipped and
\* the first such error is kept (d.saveError), the rest of the object is still
\* decoded
assign(acc, tag, v) ==
    IF v.t = "null" THEN acc
    ELSE IF fits(kindOf(tag), v)
        THEN [acc EXCEPT !.ev = [acc.ev EXCEPT ![goField(tag)] = stored(v)]]
    ELSE IF acc.err = NoError THEN [acc EXCEPT !.err = "UnmarshalTypeError"]
    ELSE acc

RECURSIVE decodeMembers(_, _)
decodeMembers(obj, acc) ==
    IF obj = <<>> THEN acc
    ELSE LET tag == fieldFor(acc.ev.variant, Head(obj).k)
         IN decodeMembers(Tail(obj),
                IF tag = "-" THEN acc ELSE assign(acc, tag, Head(obj).v))

\* json.Unmarshal([]byte(obj.Raw), ev); ev = None is the nil interface
jsonUnmarshal(obj, ev) ==
    IF ev = None THEN [ev |-> None, err |-> "InvalidUnmarshalError"]
    ELSE decodeMembers(obj, [ev |-> ev, err |-> NoError])

-----------------------------------------------------------------------------
(* Enrichment and the two decoders                                         *)

\* reflect.ValueOf(ev).Elem().FieldByName(name).Set...(value)
setEventField(ev, name, value) == [ev EXCEPT ![name] = value]

\* Whether the event concerns the bot itself.
isEventRelativeToBot(ev) ==
    CASE ev.variant = "PrivateMessageEvent" -> TRUE
      [] ev.variant = "GroupMessageEvent" -> ev.SelfId \in ev.Message
      [] ev.variant = "GroupDecreaseNoticeEvent" -> ev.UserId = ev.SelfId
      [] ev.variant = "PokeNoticeEvent" -> ev.TargetId = ev.SelfId
      [] ev.variant = "FriendAddNoticeEvent" -> TRUE
      [] ev.variant \in {"FriendRequestEvent", "GroupRequestEvent"} -> TRUE
      [] OTHER -> FALSE

setToMeAlways(ev) == setEventField(ev, "ToMe", TRUE)

\* if isEventRelativeToBot(ev) { setEventField(ev, "ToMe", true) }
setToMe(ev) ==
    IF isEventRelativeToBot(ev) THEN setEventField(ev, "ToMe", TRUE) ELSE ev

\* a name of the first two levels only
typeNameOnly(obj) == getTypeName(obj)

\* the name the decoders store in EventName
eventNameFor(obj) == getFullTypeName(obj)

Returned(ev) == [ok |-> TRUE, ev |-> ev, panic |-> "none", local |-> None]
\* A panic: nothing is returned.  local is the value ev pointed to when the
\* call was abandoned.
Panicked(why, local) == [ok |-> FALSE, ev |-> None, panic |-> why, local |-> local]

\* the decoder that ends in "return ev" after the steps below
convertJsonObjectToEvent(obj) ==
    LET variant == switchVariant(getTypeName(obj), getSubType(obj))
    IN  IF variant = NoCase THEN Panicked("unknown event type", None)
        ELSE LET u == jsonUnmarshal(obj, IF variant = NilEvent THEN None
                                          ELSE newEvent(variant))
             IN  IF u.err # NoError THEN Panicked(u.err, u.ev)
                 ELSE Returned(setToMe(setEventField(u.ev, "EventName", eventNameFor(obj))))

\* part_000: the same resolver and decoder; its Event has no ToMe field
FromJsonObject(obj) ==
    LET variant == switchVariant(getTypeName(obj), getSubType(obj))
    IN  IF variant = NoCase THEN Panicked("unknown event type", None)
        ELSE LET u == jsonUnmarshal(obj, IF variant = NilEvent THEN None
                                          ELSE newEvent(variant))
             IN  IF u.err # NoError THEN Panicked(u.err, u.ev)
                 ELSE Returned(setEventField(u.ev, "EventName", eventNameFor(obj)))

-----------------------------------------------------------------------------
(* The payloads the decoders are called with                               *)

MaxId == 2
Ids == 1..MaxId

PostTypes ==
    {None, Str(<<"message">>), Str(<<"notice">>), Str(<<"request">>),
     Str(<<"meta_event">>), Str(<<"oracle">>), Str(<<"Message">>),
     Str(<<"message", "private">>), Num(7)}

\* second-level members that name no entry of the switch, or sit under a key
\* the post_type may not name
StraySecond ==
    {None, Member("notice_type", Str(<<"private">>)),
     Member("message_type", Str(<<"bogus">>)), Member("message_type", Num(1)),
     Member("_type", Str(<<"private">>)), Member("oracle_type", Str(<<"x">>)),
     Member("7_type", Str(<<"private">>)), Member("request_type", Null)}

SubTypes ==
    {None, Str(<<"poke">>), Str(<<"lucky_king">>), Str(<<"honor">>),
     Str(<<"unknown_sub">>), Str(<<"a", "b">>), Str(Empty), Num(3), Null}

Opt(m) == IF m = None THEN <<>> ELSE <<m>>
OptMember(k, v) == IF v = None THEN <<>> ELSE <<Member(k, v)>>

\* the typeNames with a case in the switch
CaseNames == DOMAIN SwitchTable \cup {<<"notice", "notify">>}

\* post_type, <post_type>_type and sub_type of every case of the switch
ProperHeads(subs) ==
    {<<Member("post_type", Str(<<t[1]>>)), Member(t[1] \o "_type", Str(<<t[2]>>))>>
          \o OptMember("sub_type", st) :
        t \in CaseNames, st \in subs}

StrayHeads ==
    {OptMember("post_type", pt) \o Opt(nt) \o OptMember("sub_type", st) :
        pt \in PostTypes, nt \in StraySecond, st \in {None, Str(<<"poke">>)}}

\* payloads that resolve, one per variant
ResolvedHeads ==
    {h \in ProperHeads({None, Str(<<"poke">>), Str(<<"lucky_king">>), Str(<<"honor">>)}) :
        /\ switchVariant(getTypeName(h), getSubType(h)) \notin {NoCase, NilEvent}
        /\ subTypeExists(h) <=> getTypeName(h) = <<"notice", "notify">>}

Self == <<Member("self_id", Num(1))>>

\* the members after the discriminators: the sender, and for the variants
\* that have the field the target or the message
BodiesFor(h) ==
    LET variant == switchVariant(getTypeName(h), getSubType(h))
    IN  {Self \o <<Member("user_id", Num(u))>> : u \in Ids}
        \cup {Self \o <<Member("user_id", Num(u)), Member("target_id", Num(t))>> :
                u \in IF "target_id" \in tagsOf(variant) THEN Ids ELSE {},
                t \in Ids}
        \cup {Self \o <<Member("user_id", Num(u)), Member("message", m)>> :
                u \in IF "message" \in tagsOf(variant) THEN Ids ELSE {},
                m \in {Msg({}), Msg(Ids)} \cup {Msg({i}) : i \in Ids}}
\* members of the wrong type, repeated, under another case, or of no field
OddBodies ==
    {Self \o <<Member("user_id", Str(<<"2">>))>>,
     Self \o <<Member("user_id", Num(2)), Member("group_id", Str(<<"x">>)),
               Member("target_id", Num(1))>>,
     <<Member("self_id", Null), Member("user_id", Num(2))>>,
     <<Member("self_id", Str(<<"1">>)), Member("user_id", Num(1))>>,
     Self \o <<Member("POST_TYPE", Str(<<"notice">>))>>,
     Self \o <<Member("post_type", Str(<<"oracle">>))>>,
     Self \o <<Member("EventName", Str(<<"hack">>)), Member("ToMe", Str(<<"true">>))>>,
     Self \o <<Member("message", Num(5))>>}

Payloads ==
    {h \o Self : h \in StrayHeads}
    \cup {h \o Self \o <<Member("user_id", Num(2))>> : h \in ProperHeads(SubTypes)}
    \cup {h \o b : h \in ResolvedHeads, b \in OddBodies}
    \cup UNION {{h \o b : b \in BodiesFor(h)} : h \in ResolvedHeads}

-----------------------------------------------------------------------------
(* Decoder calls                                                           *)

Idle ==
    /\ stream = <<>> /\ delivered = <<>> /\ diagnostics = <<>> /\ alive = TRUE
    /\ msgA = None /\ msgB = None /\ keyA = None /\ keyB = None /\ desc = None

Init ==
    /\ payload = None /\ api = "none" /\ ret = None /\ ref = None
    /\ Idle

\* History only: the kept call learns that another payload was decoded after it.
Noted(obj) ==
    IF ref # None /\ ref.payload # obj THEN [ref EXCEPT !.others = TRUE] ELSE ref

CallConvert(obj) ==
    /\ payload' = obj
    /\ api' = "convert"
    /\ ret' = convertJsonObjectToEvent(obj)
    /\ ref' = Noted(obj)
    /\ UNCHANGED <<stream, delivered, diagnostics, alive, msgA, msgB, keyA, keyB, desc>>

CallFromJsonObject(obj) ==
    /\ payload' = obj
    /\ api' = "from"
    /\ ret' = FromJsonObject(obj)
    /\ ref' = Noted(obj)
    /\ UNCHANGED <<stream, delivered, diagnostics, alive, msgA, msgB, keyA, keyB, desc>>

Next ==
    \/ \E obj \in Payloads : CallConvert(obj)
    \/ \E obj \in Payloads : CallFromJsonObject(obj)

Spec == Init /\ [][Next]_vars

\* Pairs of calls: any call may be kept and compared with a later one.
PairPayloads ==
    {h \o Self \o <<Member("user_id", Num(2))>> :
        h \in ProperHeads({None, Str(<<"poke">>), Str(<<"unknown_sub">>)})}
    \cup {h \o Self \o b :
            h \in {g \in ResolvedHeads :
                     getTypeName(g) \in {<<"message", "group">>, <<"notice", "notify">>}},
            b \in {<<Member("user_id", Num(2)), Member("target_id", Num(1))>>,
                   <<Member("user_id", Num(2)), Member("message", Msg({1}))>>}}

\* History only: keep the last call.
Remember ==
    /\ ret # None
    /\ ref' = [payload |-> payload, api |-> api, ret |-> ret, others |-> FALSE]
    /\ UNCHANGED <<payload, api, ret, stream, delivered, diagnostics, alive,
                   msgA, msgB, keyA, keyB, desc>>

NextPair ==
    \/ \E obj \in PairPayloads : CallConvert(obj)
    \/ \E obj \in PairPayloads : CallFromJsonObject(obj)
    \/ Remember

SpecPair == Init /\ [][NextPair]_vars

-----------------------------------------------------------------------------
(* The loop that owns the decoder                                          *)

MaxStream == 3

StreamPayloads ==
    {<<Member("post_type", Str(<<"message">>)), Member("message_type", Str(<<"private">>)),
       Member("self_id", Num(1)), Member("user_id", Num(2))>>,
     <<Member("post_type", Str(<<"notice">>)), Member("notice_type", Str(<<"notify">>)),
       Member("sub_type", Str(<<"poke">>)), Member("self_id", Num(1)),
       Member("user_id", Num(2)), Member("target_id", Num(1))>>,
     <<Member("post_type", Str(<<"oracle">>)), Member("self_id", Num(1))>>,
     <<Member("post_type", Str(<<"notice">>)), Member("notice_type", Str(<<"notify">>)),
       Member("sub_type", Str(<<"unknown_sub">>)), Member("self_id", Num(1))>>,
     <<Member("post_type", Str(<<"message">>)), Member("message_type", Str(<<"group">>)),
       Member("self_id", Num(1)), Member("user_id", Str(<<"2">>))>>}

\* a panic nobody recovers ends the process
unrecovered(r) == r.ok

\* The loop recovers a panicking decode call, so the process goes on.
survives(r) == TRUE

\* One payload off the connection: decode it, hand the event on, or report
\* the payload and the failure and go on with the next one.
OnPayload(obj) ==
    /\ alive
    /\ Len(stream) < MaxStream
    /\ stream' = Append(stream, obj)
    /\ LET r == convertJsonObjectToEvent(obj)
       IN  /\ payload' = obj /\ api' = "convert" /\ ret' = r
           /\ alive' = survives(r)
           /\ delivered' = IF r.ok THEN Append(delivered, r.ev) ELSE delivered
           /\ diagnostics' = IF r.ok THEN diagnostics
                             ELSE Append(diagnostics, [payload |-> obj, reason |-> r.panic])
    /\ UNCHANGED <<ref, msgA, msgB, keyA, keyB, desc>>

NextStream == \E obj \in StreamPayloads : OnPayload(obj)

SpecStream == Init /\ [][NextStream]_vars

-----------------------------------------------------------------------------
(* Session ids and descriptions of message events                          *)

\* fmt's %d: the decimal digits, as runes, after '-' for a negative number
RECURSIVE digitsOf(_)
digitsOf(n) == IF n < 10 THEN <<48 + n>> ELSE digitsOf(n \div 10) \o <<48 + (n % 10)>>
formatInt(n) == IF n < 0 THEN <<45>> \o digitsOf(0 - n) ELSE digitsOf(n)

\* fmt.Sprintf("%d", e.UserId)
MessageEvent_GetSessionId(e) == formatInt(e.UserId)

\* fmt.Sprintf("%d@%d", e.UserId, e.GroupId)
GroupMessageEvent_GetSessionId(e) == formatInt(e.UserId) \o <<64>> \o formatInt(e.GroupId)

\* GroupMessageEvent without its own method: the promoted one answers
promotedGetSessionId(e) == MessageEvent_GetSessionId(e)

\* Method selection: GroupMessageEvent has its own GetSessionId, which hides
\* the one PrivateMessageEvent gets from the embedded MessageEvent.
GetSessionId(e) ==
    IF e.variant = "GroupMessageEvent" THEN GroupMessageEvent_GetSessionId(e)
    ELSE MessageEvent_GetSessionId(e)

MaxSessionId == 12
NegSessionIds == 1
SessionIds == (0 - NegSessionIds)..MaxSessionId

MessageEventOf(variant, messageId, userId, groupId, text) ==
    [variant |-> variant, MessageId |-> messageId, UserId |-> userId,
     GroupId |-> groupId, Message |-> text]

SessionEvents ==
    {MessageEventOf("PrivateMessageEvent", 1, u, 0, <<>>) : u \in SessionIds}
    \cup {MessageEventOf("GroupMessageEvent", 1, u, g, <<>>) :
            u \in SessionIds, g \in SessionIds}

InitSession ==
    /\ payload = None /\ api = "none" /\ ret = None /\ ref = None
    /\ stream = <<>> /\ delivered = <<>> /\ diagnostics = <<>> /\ alive = TRUE
    /\ msgA \in SessionEvents /\ msgB \in SessionEvents
    /\ keyA = None /\ keyB = None /\ desc = None

CallGetSessionId ==
    /\ keyA = None
    /\ keyA' = [s |-> GetSessionId(msgA)]
    /\ keyB' = [s |-> GetSessionId(msgB)]
    /\ UNCHANGED <<payload, api, ret, ref, stream, delivered, diagnostics, alive,
                   msgA, msgB, desc>>

NextSession == CallGetSessionId

SpecSession == InitSession /\ [][NextSession]_vars

PreviewLimit == 100
PreviewEdge == 50

NewLine == 10
EscapedNewLine == <<92, 110>>

\* msgRune[lo:hi]; a panic when the bounds are out of range
slice(r, lo, hi) ==
    IF 0 <= lo /\ lo <= hi /\ hi <= Len(r)
        THEN [ok |-> TRUE, s |-> SubSeq(r, lo + 1, hi)]
    ELSE [ok |-> FALSE, s |-> <<>>]

\* "%s...(省略%d个字符)...%s"
elided(first, count, last) ==
    first \o <<46, 46, 46, 40, 30465, 30053>> \o formatInt(count)
          \o <<20010, 23383, 31526, 41, 46, 46, 46>> \o last

previewFromLimit(r) ==
    IF Len(r) >= PreviewLimit
        THEN LET first == slice(r, 0, PreviewEdge)
                 last == slice(r, Len(r) - PreviewEdge, Len(r))
             IN  IF first.ok /\ last.ok
                     THEN [ok |-> TRUE, s |-> elided(first.s, Len(r) - PreviewLimit, last.s)]
                 ELSE [ok |-> FALSE, s |-> <<>>]
    ELSE [ok |-> TRUE, s |-> r]

\* if len(msgRune) > 100 { msg = first 50, the count left out, last 50 }
preview(r) ==
    IF Len(r) > PreviewLimit
        THEN LET first == slice(r, 0, PreviewEdge)
                 last == slice(r, Len(r) - PreviewEdge, Len(r))
             IN  IF first.ok /\ last.ok
                     THEN [ok |-> TRUE, s |-> elided(first.s, Len(r) - PreviewLimit, last.s)]
                 ELSE [ok |-> FALSE, s |-> <<>>]
    ELSE [ok |-> TRUE, s |-> r]

\* strings.Replace(msg, "\n", "\\n", -1): every newline, left to right.  The
\* text sought is one rune, so no occurrence straddles a cut and the text
\* may be replaced half by half.
RECURSIVE replaceNewLines(_)
replaceNewLines(r) ==
    IF Len(r) = 0 THEN <<>>
    ELSE IF Len(r) = 1 THEN (IF r[1] = NewLine THEN EscapedNewLine ELSE r)
    ELSE LET half == Len(r) \div 2
         IN  replaceNewLines(SubSeq(r, 1, half))
             \o replaceNewLines(SubSeq(r, half + 1, Len(r)))

\* "[私聊消息](#%d 来自%d): " and "[群聊消息](#%d 来自%d@群%d): "
headerOf(e) ==
    IF e.variant = "GroupMessageEvent"
        THEN <<91, 32676, 32842, 28040, 24687, 93, 40, 35>> \o formatInt(e.MessageId)
             \o <<32, 26469, 33258>> \o formatInt(e.UserId)
             \o <<64, 32676>> \o formatInt(e.GroupId) \o <<41, 58, 32>>
    ELSE <<91, 31169, 32842, 28040, 24687, 93, 40, 35>> \o formatInt(e.MessageId)
         \o <<32, 26469, 33258>> \o formatInt(e.UserId) \o <<41, 58, 32>>

\* PrivateMessageEvent.GetEventDescription and GroupMessageEvent's, which
\* differ in the header only; e.Message is the runes of e.Message.String()
GetEventDescription(e) ==
    LET msg == preview(e.Message)
    IN  IF ~msg.ok THEN [ok |-> FALSE, s |-> <<>>]
        ELSE [ok |-> TRUE, s |-> headerOf(e) \o replaceNewLines(msg.s)]

MaxLen == 103
NewLinePatterns == 0..4

\* message text of n runes, each rune telling its place, with newlines placed
\* by pattern: none, everywhere, every seventh, at both ends, around the cuts
TextOf(n, pattern) ==
    [i \in 1..n |->
        IF \/ pattern = 1
           \/ pattern = 2 /\ i % 7 = 0
           \/ pattern = 3 /\ i \in {1, n}
           \/ pattern = 4 /\ i \in {PreviewEdge, PreviewEdge + 1,
                                    n - PreviewEdge, n - PreviewEdge + 1}
        THEN NewLine ELSE 19968 + i]

DescribedEvents ==
    {MessageEventOf(v, 5, 2, IF v = "GroupMessageEvent" THEN 10 ELSE 0, TextOf(n, k)) :
        v \in {"PrivateMessageEvent", "GroupMessageEvent"},
        n \in 0..MaxLen, k \in NewLinePatterns}

InitDescription ==
    /\ payload = None /\ api = "none" /\ ret = None /\ ref = None
    /\ stream = <<>> /\ delivered = <<>> /\ diagnostics = <<>> /\ alive = TRUE
    /\ msgA \in DescribedEvents /\ msgB = None
    /\ keyA = None /\ keyB = None /\ desc = None

CallGetEventDescription ==
    /\ desc = None
    /\ desc' = GetEventDescription(msgA)
    /\ UNCHANGED <<payload, api, ret, ref, stream, delivered, diagnostics, alive,
                   msgA, msgB, keyA, keyB>>

NextDescription == CallGetEventDescription

SpecDescription == InitDescription /\ [][NextDescription]_vars

-----------------------------------------------------------------------------
(* What the claims say of a payload, read off its members                  *)

HasMember(obj, key) == \E i \in 1..Len(obj) : obj[i].k = key

FirstIndex(obj, key) ==
    CHOOSE i \in 1..Len(obj) :
        obj[i].k = key /\ \A j \in 1..(i - 1) : obj[j].k # key

\* the text of the first member with the key, "" when there is none
TextAt(obj, key) ==
    IF ~HasMember(obj, key) THEN Empty
    ELSE LET v == obj[FirstIndex(obj, key)].v
         IN  IF v.t = "string" THEN v.s
             ELSE IF v.t = "number" THEN <<ToString(v.n)>>
             ELSE Empty

\* "<post_type>.<value of the field named <post_type>_type>"
TypeNameOf(obj) ==
    LET pt == TextAt(obj, "post_type")
    IN  pt \o (IF Len(pt) = 1 THEN TextAt(obj, pt[1] \o "_type") ELSE Empty)

Called == ret # None
Succeeded == Called /\ ret.ok
NotifySubTypes == {<<"poke">>, <<"lucky_king">>, <<"honor">>}
PostTypeNames == {<<"message">>, <<"notice">>, <<"request">>, <<"meta_event">>}

-----------------------------------------------------------------------------
(* C1 *)

\* C1 as stated: after a successful decode EventName is
\* "<post_type>.<post_type_type>" when the payload has no sub_type member and
\* that followed by ".<sub_type>" when it has one, so 2 segments without
\* sub_type and 3 with it.
C1_AsStated ==
    Succeeded =>
        /\ ~HasMember(payload, "sub_type") =>
              /\ ret.ev.EventName = TypeNameOf(payload)
              /\ Len(ret.ev.EventName) = 2
        /\ HasMember(payload, "sub_type") =>
              /\ ret.ev.EventName = TypeNameOf(payload) \o TextAt(payload, "sub_type")
              /\ Len(ret.ev.EventName) = 3

\* C1 amended: after a successful decode EventName is
\* "<post_type>.<post_type_type>" when the payload has no sub_type member (2
\* segments) and that followed by ".<sub_type>" when it has one; it then has
\* 2 segments plus the dot-separated segments of the sub_type text, which is 3
\* when that text holds no dot.  A member named EventName changes nothing.
C1_EventNameIsFullTypeName ==
    Succeeded =>
        /\ ~HasMember(payload, "sub_type") =>
              /\ ret.ev.EventName = TypeNameOf(payload)
              /\ Len(ret.ev.EventName) = 2
        /\ HasMember(payload, "sub_type") =>
              /\ ret.ev.EventName = TypeNameOf(payload) \o TextAt(payload, "sub_type")
              /\ Len(ret.ev.EventName) = 2 + Len(TextAt(payload, "sub_type"))
              /\ Len(TextAt(payload, "sub_type")) = 1 => Len(ret.ev.EventName) = 3

C1_Witness ==
    /\ Succeeded
    /\ HasMember(payload, "sub_type")
    /\ HasMember(payload, "EventName")
    /\ ret.ev.EventName = <<"notice", "notify", "poke">>

-----------------------------------------------------------------------------
(* C2 *)

\* C2: a payload whose typeName has no case in the switch (post_type or the
\* second-level member absent included), and a notice.notify payload whose
\* sub_type is absent or none of poke, lucky_king, honor, makes the call fail:
\* no event is returned, no fallback variant is chosen, and the failure is
\* the one of an unresolved type, not the one of a field of the wrong type.
C2_UnknownTypeFails ==
    Called =>
        /\ TypeNameOf(payload) \notin CaseNames =>
              /\ ~ret.ok /\ ret.ev = None /\ ret.local = None
              /\ ret.panic = "unknown event type"
        /\ (/\ TypeNameOf(payload) = <<"notice", "notify">>
            /\ TextAt(payload, "sub_type") \notin NotifySubTypes) =>
              /\ ~ret.ok /\ ret.ev = None /\ ret.local = None
              /\ ret.panic = "InvalidUnmarshalError"

C2_Witness ==
    /\ Called
    /\ TypeNameOf(payload) = <<"notice", "notify">>
    /\ TextAt(payload, "sub_type") = <<"unknown_sub">>
    /\ ~ret.ok

-----------------------------------------------------------------------------
(* C3 *)

\* the cases in which the claim has the event addressed to the bot
AddressedToBot(ev) ==
    LET name == ev.EventName
        two == SubSeq(name, 1, 2)
    IN  \/ two = <<"message", "private">>
        \/ two = <<"message", "group">> /\ ev.SelfId \in ev.Message
        \/ two = <<"notice", "group_decrease">> /\ ev.UserId = ev.SelfId
        \/ /\ Len(name) >= 3
           /\ SubSeq(name, 1, 3) = <<"notice", "notify", "poke">>
           /\ ev.TargetId = ev.SelfId
        \/ two = <<"notice", "friend_add">>
        \/ two \in {<<"request", "friend">>, <<"request", "group">>}

-----------------------------------------------------------------------------
(* C5 *)

\* C5: after a successful decode the first segment of EventName is the
\* PostType field, one of message, notice, request, meta_event.
C5_FirstSegmentIsPostType ==
    Succeeded =>
        /\ <<Head(ret.ev.EventName)>> = ret.ev.PostType
        /\ ret.ev.PostType \in PostTypeNames

-----------------------------------------------------------------------------
(* C6 *)

\* a member that selects a field of the variant and holds a value the field
\* cannot store
Mismatch(obj, variant) ==
    \E i \in 1..Len(obj) :
        LET tag == fieldFor(variant, obj[i].k)
        IN  tag # "-" /\ ~fits(kindOf(tag), obj[i].v)

ResolvedVariant == switchVariant(TypeNameOf(payload), TextAt(payload, "sub_type"))

\* C6: when a member of a resolved payload holds a value of a type its field
\* cannot store, the call fails as a whole: it panics with the decoder's
\* error, returns no event, and the value it was filling never has EventName
\* or ToMe set.
C6_MalformedFails ==
    (/\ Called
     /\ ResolvedVariant \notin {NoCase, NilEvent}
     /\ Mismatch(payload, ResolvedVariant)) =>
        /\ ~ret.ok /\ ret.ev = None
        /\ ret.panic = "UnmarshalTypeError"
        /\ ret.local.EventName = Empty /\ ~ret.local.ToMe

C6_Witness ==
    /\ Called /\ ~ret.ok
    /\ ret.panic = "UnmarshalTypeError"
    /\ ret.local.PostType = <<"message">>
    /\ ret.local.SelfId = 1
    /\ ret.local.UserId = 0

-----------------------------------------------------------------------------
(* C4 *)

\* the variant the resolver chose in a call: that of the event returned, or
\* of the value being filled when the call was abandoned
Chosen(r) ==
    IF r.ok THEN r.ev.variant
    ELSE IF r.local # None THEN r.local.variant
    ELSE "none"

\* C4: two payloads with the same typeName other than notice.notify get the
\* same variant whatever their sub_type; a notice.notify payload gets
\* PokeNoticeEvent, LuckyKingNoticeEvent or HonorNoticeEvent by its sub_type.
C4_VariantByTypeName ==
    /\ (/\ ref # None /\ Called
        /\ TypeNameOf(ref.payload) = TypeNameOf(payload)
        /\ TypeNameOf(payload) \in CaseNames \ {<<"notice", "notify">>}) =>
            /\ Chosen(ret) = Chosen(ref.ret)
            /\ Chosen(ret) # "none"
    /\ (Called /\ TypeNameOf(payload) = <<"notice", "notify">>) =>
            LET st == TextAt(payload, "sub_type")
            IN  /\ st = <<"poke">> => Chosen(ret) = "PokeNoticeEvent"
                /\ st = <<"lucky_king">> => Chosen(ret) = "LuckyKingNoticeEvent"
                /\ st = <<"honor">> => Chosen(ret) = "HonorNoticeEvent"

C4_Witness ==
    /\ ref # None /\ Called
    /\ TypeNameOf(ref.payload) = <<"notice", "group_increase">>
    /\ TypeNameOf(payload) = <<"notice", "group_increase">>
    /\ ~HasMember(ref.payload, "sub_type")
    /\ TextAt(payload, "sub_type") = <<"poke">>
    /\ ret.ok /\ ref.ret.ok
    /\ ret.ev.variant = "GroupIncreaseNoticeEvent"
    /\ ret.ev.EventName # ref.ret.ev.EventName

-----------------------------------------------------------------------------
(* C9 *)

-----------------------------------------------------------------------------
(* C7 *)

Decodes(obj) == convertJsonObjectToEvent(obj).ok
EventOf(obj) == convertJsonObjectToEvent(obj).ev

-----------------------------------------------------------------------------
(* C8 *)

IsDigit(c) == c \in 48..57

\* the number a decimal numeral denotes
RECURSIVE NaturalOf(_)
NaturalOf(r) ==
    IF Len(r) = 1 THEN r[1] - 48
    ELSE 10 * NaturalOf(SubSeq(r, 1, Len(r) - 1)) + (r[Len(r)] - 48)

IsNumeral(r) ==
    /\ r # <<>>
    /\ \/ \A i \in 1..Len(r) : IsDigit(r[i])
       \/ Len(r) > 1 /\ r[1] = 45 /\ \A i \in 2..Len(r) : IsDigit(r[i])

NumberOf(r) == IF r[1] = 45 THEN 0 - NaturalOf(Tail(r)) ELSE NaturalOf(r)

Ats(r) == {i \in 1..Len(r) : r[i] = 64}

\* the key is the decimal numeral of n
IsDecimalOf(r, n) == IsNumeral(r) /\ NumberOf(r) = n

\* the key is "<u>@<g>"
IsPairOf(r, u, g) ==
    /\ Cardinality(Ats(r)) = 1
    /\ LET at == CHOOSE i \in Ats(r) : TRUE
       IN  /\ IsDecimalOf(SubSeq(r, 1, at - 1), u)
           /\ IsDecimalOf(SubSeq(r, at + 1, Len(r)), g)

IsGroup(e) == e.variant = "GroupMessageEvent"

\* C8: the session id of a private message is the decimal UserId alone and
\* that of a group message is "<UserId>@<GroupId>"; a private and a group
\* message of the same user never share a session id, and two group messages
\* share one exactly when their UserId and their GroupId are equal.
C8_SessionKeys ==
    keyA # None =>
        /\ ~IsGroup(msgA) => IsDecimalOf(keyA.s, msgA.UserId)
        /\ IsGroup(msgA) => IsPairOf(keyA.s, msgA.UserId, msgA.GroupId)
        /\ (~IsGroup(msgA) /\ IsGroup(msgB) /\ msgA.UserId = msgB.UserId) =>
              keyA.s # keyB.s
        /\ (IsGroup(msgA) /\ IsGroup(msgB)) =>
              (keyA.s = keyB.s <=>
                  (msgA.UserId = msgB.UserId /\ msgA.GroupId = msgB.GroupId))

C8_Witness ==
    /\ keyA # None
    /\ IsGroup(msgA) /\ IsGroup(msgB)
    /\ msgA.UserId = 1 /\ msgA.GroupId = 12
    /\ msgB.UserId = 11 /\ msgB.GroupId = 2
    /\ keyA.s = <<49, 64, 49, 50>> /\ keyB.s = <<49, 49, 64, 50>>

-----------------------------------------------------------------------------
(* C10 *)

NewLinesIn(r) == Cardinality({j \in 1..Len(r) : r[j] = NewLine})

\* out is src with every newline given as backslash, n and every other rune
\* given as it is, place by place
Renders(src, out) ==
    /\ Len(out) = Len(src) + NewLinesIn(src)
    /\ \A i \in 1..Len(src) :
          LET at == i + NewLinesIn(SubSeq(src, 1, i - 1))
          IN  IF src[i] = NewLine THEN out[at] = 92 /\ out[at + 1] = 110
              ELSE out[at] = src[i]

MarkerOpen == <<46, 46, 46, 40, 30465, 30053>>
MarkerClose == <<20010, 23383, 31526, 41, 46, 46, 46>>

\* body is: the first runes rendered, the marker telling count, the last runes rendered
IsPreview(body, first, count, last) ==
    LET a == Len(first) + NewLinesIn(first)
        z == Len(last) + NewLinesIn(last)
        digits == SubSeq(body, a + Len(MarkerOpen) + 1, Len(body) - z - Len(MarkerClose))
    IN  /\ Len(body) > a + z + Len(MarkerOpen) + Len(MarkerClose)
        /\ Renders(first, SubSeq(body, 1, a))
        /\ SubSeq(body, a + 1, a + Len(MarkerOpen)) = MarkerOpen
        /\ IsDecimalOf(digits, count)
        /\ SubSeq(body, Len(body) - z - Len(MarkerClose) + 1, Len(body) - z) = MarkerClose
        /\ Renders(last, SubSeq(body, Len(body) - z + 1, Len(body)))

\* C10: describing a private or group message never fails; text of at most
\* 100 runes is given in full, text of n > 100 runes as its first 50 runes,
\* a marker telling n - 100 and its last 50 runes; every newline is given as
\* backslash, n, and the description holds no newline.
C10_Description ==
    desc # None =>
        LET text == msgA.Message
            n == Len(text)
            body == SubSeq(desc.s, Len(headerOf(msgA)) + 1, Len(desc.s))
        IN  /\ desc.ok
            /\ \A i \in 1..Len(desc.s) : desc.s[i] # NewLine
            /\ SubSeq(desc.s, 1, Len(headerOf(msgA))) = headerOf(msgA)
            /\ n <= 100 => Renders(text, body)
            /\ n > 100 => IsPreview(body, SubSeq(text, 1, 50), n - 100,
                                    SubSeq(text, n - 49, n))

C10_Witness ==
    /\ desc # None /\ desc.ok
    /\ Len(msgA.Message) = 103
    /\ NewLinesIn(msgA.Message) = 4
    /\ Len(desc.s) = Len(headerOf(msgA)) + 50 + 1 + Len(MarkerOpen) + 1
                        + Len(MarkerClose) + 50 + 1

====
